---- MODULE Spec2Model ----
(***************************************************************************)
(* sqint: the Database class (schema reader, query executor, point writes) *)
(* and the Sqint application's handlers that turn a grid selection into a  *)
(* write.  Python strings are sequences of one-character strings, so that  *)
(* quoting, truncation and markup escaping are computed, not assumed.      *)
(***************************************************************************)
EXTENDS Integers, Sequences, FiniteSets, TLC

\* ------------------------------------------------------------------ bounds

\* At most this many update and insert calls in a behaviour.
MaxWrites == 1

\* ----------------------------------------------------------------- strings

Q == "\""
SP == " "
BS == "\\"

S_None == <<"N", "o", "n", "e">>
S_rowid == <<"r", "o", "w", "i", "d">>
S_Error == <<"E", "r", "r", "o", "r">>
S_dots == <<".", ".", ".">>
S_INTEGER == <<"I", "N", "T", "E", "G", "E", "R">>
S_TEXT == <<"T", "E", "X", "T">>

DigitChars == <<"0", "1", "2", "3", "4", "5", "6", "7", "8", "9">>
Digits == {DigitChars[i] : i \in 1..10}
LowerChars == {"a", "b", "c", "d", "e", "f", "g", "h", "i", "j", "k", "l", "m",
               "n", "o", "p", "q", "r", "s", "t", "u", "v", "w", "x", "y", "z"}
IdentChars == LowerChars \cup Digits \cup {"_", "N", "E", "I", "T", "G", "R", "X"}

DigitVal(c) == (CHOOSE i \in 1..10 : DigitChars[i] = c) - 1

RECURSIVE DigitsOf(_)
DigitsOf(n) == IF n < 10 THEN <<DigitChars[n + 1]>>
               ELSE DigitsOf(n \div 10) \o <<DigitChars[(n % 10) + 1]>>

RECURSIVE NumOf(_)
NumOf(s) == IF s = <<>> THEN 0
            ELSE 10 * NumOf(SubSeq(s, 1, Len(s) - 1)) + DigitVal(s[Len(s)])

RECURSIVE Replace(_, _, _)
\* str.replace(old, new) for a one-character old.
Replace(s, old, new) ==
    IF s = <<>> THEN <<>>
    ELSE (IF Head(s) = old THEN new ELSE <<Head(s)>>) \o Replace(Tail(s), old, new)

RECURSIVE Join(_, _)
\* sep.join(parts)
Join(sep, parts) ==
    IF parts = <<>> THEN <<>>
    ELSE IF Len(parts) = 1 THEN parts[1]
    ELSE parts[1] \o sep \o Join(sep, Tail(parts))

Range(f) == {f[i] : i \in DOMAIN f}

\* list.index(x): the first position of x, 0 when x is absent (ValueError).
IndexOf(seq, x) ==
    IF \E i \in 1..Len(seq) : seq[i] = x
    THEN CHOOSE i \in 1..Len(seq) : seq[i] = x /\ \A j \in 1..(i - 1) : seq[j] # x
    ELSE 0

\* ------------------------------------------------------- escape_identifier

\* A faulty escape_identifier: the name as it is, unquoted.
escape_identifier_raw(name) == name

escape_identifier(name) == <<Q>> \o Replace(name, Q, <<Q, Q>>) \o <<Q>>

\* ------------------------------------------------------------ sanitize_table

limit == 40

RECURSIVE NoOpenBefore(_, _, _)
\* No "[" in s[from..to].
NoOpenBefore(s, from, to) ==
    from > to \/ (s[from] # "[" /\ NoOpenBefore(s, from + 1, to))

\* The end of the markup tag opening at i: the first "]" after a tag start
\* character with no "[" in between; 0 when s[i] opens no tag.
TagEnd(s, i) ==
    IF /\ s[i] = "["
       /\ i + 1 <= Len(s)
       /\ s[i + 1] \in (LowerChars \cup {"#", "/", "@"})
       /\ \E j \in (i + 2)..Len(s) : s[j] = "]" /\ NoOpenBefore(s, i + 2, j - 1)
    THEN CHOOSE j \in (i + 2)..Len(s) :
            /\ s[j] = "]" /\ NoOpenBefore(s, i + 2, j - 1)
            /\ \A k \in (i + 2)..(j - 1) : s[k] # "]"
    ELSE 0

RECURSIVE EscapeFrom(_, _, _)
\* rich.markup.escape, scanning from i with nb backslashes just before i:
\* a tag is prefixed by a backslash, the backslashes before it doubled.
EscapeFrom(s, i, nb) ==
    IF i > Len(s) THEN <<>>
    ELSE IF TagEnd(s, i) # 0
         THEN [k \in 1..nb |-> BS] \o <<BS>> \o SubSeq(s, i, TagEnd(s, i))
              \o EscapeFrom(s, TagEnd(s, i) + 1, 0)
         ELSE <<s[i]>> \o EscapeFrom(s, i + 1, IF s[i] = BS THEN nb + 1 ELSE 0)

escape(s) ==
    LET e == EscapeFrom(s, 1, 0)
        n == Len(e)
    IN IF n >= 1 /\ e[n] = BS /\ ~(n >= 2 /\ e[n - 1] = BS) THEN e \o <<BS>> ELSE e

truncate(col) ==
    IF Len(col) > limit THEN SubSeq(col, 1, limit - 3) \o S_dots ELSE col

sanitize_cell(col) == escape(truncate(col))

sanitize_table(rows) ==
    [i \in 1..Len(rows) |-> [j \in 1..Len(rows[i]) |-> sanitize_cell(rows[i][j])]]

\* ------------------------------------------------- engine values (sqlite3)

\* A stored value: NULL, an integer (canonical decimal digits) or a text.
NullV == [t |-> "null", v |-> <<>>]
IntV(n) == [t |-> "int", v |-> DigitsOf(n)]
TextV(s) == [t |-> "text", v |-> s]

\* str(col) of a fetched cell.
PyStr(val) == IF val.t = "null" THEN S_None ELSE val.v

IsIntText(s) == s # <<>> /\ \A i \in 1..Len(s) : s[i] \in Digits

\* Column type affinity, applied to a value stored in or compared with a column.
ApplyAffinity(aff, val) ==
    IF aff = "INTEGER" /\ val.t = "text" /\ IsIntText(val.v) THEN IntV(NumOf(val.v))
    ELSE IF aff = "TEXT" /\ val.t = "int" THEN TextV(val.v)
    ELSE val

\* ----------------------------------------------- the database files on disk

Col(name, decl, aff, pk, dflt) ==
    [name |-> name, decl |-> decl, aff |-> aff, pk |-> pk, dflt |-> dflt]
Row(rowid, cells) == [rowid |-> rowid, cells |-> cells]

S_v == <<"v">>
S_zz == <<"z", "z">>
S_w == <<"w">>
S_id == <<"i", "d">>
S_name == <<"n", "a", "m", "e">>
S_a_b == <<"a", SP, "b">>
S_Ada == <<"A", "d", "a">>
S_Bo == <<"B", "o">>
S_markup == <<"[", "b", "]">>
S_long == [i \in 1..(limit + 1) |-> "k"]

\* CREATE TABLE p(id INTEGER PRIMARY KEY, name TEXT)
T_people ==
    [name |-> <<"p">>, alias |-> 1,
     cols |-> <<Col(S_id, S_INTEGER, "INTEGER", 1, NullV),
                Col(S_name, S_TEXT, "TEXT", 0, NullV)>>,
     rows |-> <<Row(1, <<IntV(1), TextV(S_Ada)>>), Row(2, <<IntV(2), TextV(S_Bo)>>)>>]

\* CREATE TABLE c(a TEXT, b TEXT, x TEXT, PRIMARY KEY(a, b))
T_comp ==
    [name |-> <<"c">>, alias |-> 0,
     cols |-> <<Col(<<"a">>, S_TEXT, "TEXT", 1, NullV),
                Col(<<"b">>, S_TEXT, "TEXT", 2, NullV),
                Col(<<"x">>, S_TEXT, "TEXT", 0, NullV)>>,
     rows |-> <<Row(1, <<TextV(<<"1">>), TextV(<<"1">>), TextV(<<"p">>)>>),
                Row(2, <<TextV(<<"1">>), TextV(<<"2">>), TextV(<<"q">>)>>)>>]

\* CREATE TABLE n(x TEXT, y TEXT DEFAULT 'd')
T_nopk ==
    [name |-> <<"n">>, alias |-> 0,
     cols |-> <<Col(<<"x">>, S_TEXT, "TEXT", 0, NullV),
                Col(<<"y">>, S_TEXT, "TEXT", 0, TextV(<<"d">>))>>,
     rows |-> <<Row(1, <<TextV(<<"u">>), TextV(<<"d">>)>>)>>]

\* CREATE TABLE r(rowid INTEGER PRIMARY KEY, x TEXT)
T_rowidpk ==
    [name |-> <<"r">>, alias |-> 1,
     cols |-> <<Col(S_rowid, S_INTEGER, "INTEGER", 1, NullV),
                Col(<<"x">>, S_TEXT, "TEXT", 0, NullV)>>,
     rows |-> <<Row(1, <<IntV(1), TextV(<<"z">>)>>)>>]

\* CREATE TABLE "s""p"("a b" INTEGER PRIMARY KEY, x TEXT)
T_quoted ==
    [name |-> <<"s", Q, "p">>, alias |-> 1,
     cols |-> <<Col(S_a_b, S_INTEGER, "INTEGER", 1, NullV),
                Col(<<"x">>, S_TEXT, "TEXT", 0, NullV)>>,
     rows |-> <<Row(1, <<IntV(1), TextV(<<"w">>)>>)>>]

\* CREATE TABLE u(k TEXT PRIMARY KEY, x INTEGER)
T_textpk ==
    [name |-> <<"u">>, alias |-> 0,
     cols |-> <<Col(<<"k">>, S_TEXT, "TEXT", 1, NullV),
                Col(<<"x">>, S_INTEGER, "INTEGER", 0, NullV)>>,
     rows |-> <<Row(1, <<TextV(S_long), IntV(1)>>),
                Row(2, <<TextV(S_markup), IntV(2)>>)>>]

\* The database file holds one of these tables and the view
\* CREATE VIEW v AS SELECT * FROM <that table>.
TableDefs == {T_people, T_comp, T_nopk, T_rowidpk, T_quoted, T_textpk}

Obj(type, name) == [type |-> type, name |-> name]

\* What a path names: a directory that does not exist, a file that is no
\* database, the database file.
Paths == {"nodir", "garbage", "db"}

\* ------------------------------------------------------ the engine's parser

RECURSIVE Undouble(_)
\* The body of a quoted identifier: each pair of quotes is one quote, a single
\* quote ends the identifier early (a syntax error).
Undouble(s) ==
    IF s = <<>> THEN [ok |-> TRUE, name |-> <<>>]
    ELSE IF Head(s) = Q
         THEN IF Len(s) >= 2 /\ s[2] = Q
              THEN LET r == Undouble(SubSeq(s, 3, Len(s)))
                   IN [ok |-> r.ok, name |-> <<Q>> \o r.name]
              ELSE [ok |-> FALSE, name |-> <<>>]
         ELSE LET r == Undouble(Tail(s))
              IN [ok |-> r.ok, name |-> <<Head(s)>> \o r.name]

\* The identifier a fragment of statement text denotes: a quoted identifier,
\* or a bare word; anything else does not parse as one identifier.
ParseIdent(frag) ==
    IF Len(frag) >= 2 /\ frag[1] = Q /\ frag[Len(frag)] = Q
    THEN Undouble(SubSeq(frag, 2, Len(frag) - 1))
    ELSE IF /\ frag # <<>>
            /\ \A i \in 1..Len(frag) : frag[i] \in IdentChars
            /\ frag[1] \notin Digits
         THEN [ok |-> TRUE, name |-> frag]
         ELSE [ok |-> FALSE, name |-> <<>>]

\* A statement handed to connection.execute: the fixed text of its kind, the
\* fragments interpolated into the text, and the bound parameters.
Stmt(kind, table, cols, where, args) ==
    [kind |-> kind, table |-> table, cols |-> cols, where |-> where, args |-> args]

\* What connection.execute gives: the exception raised ("none": it returned),
\* whether cursor.description is set, the column names, the fetched rows, the
\* table's rows afterwards, and whether a transaction was begun.
EngRes(exc, desc, columns, rows, data, begun) ==
    [exc |-> exc, desc |-> desc, columns |-> columns, rows |-> rows,
     data |-> data, begun |-> begun]

EngErr(exc, d, begun) == EngRes(exc, FALSE, <<>>, <<>>, d.rows, begun)

\* -------------------------------------------------- the engine's data model

ObjType(d, name) ==
    IF \E i \in 1..Len(d.objs) : d.objs[i].name = name
    THEN d.objs[CHOOSE i \in 1..Len(d.objs) : d.objs[i].name = name].type
    ELSE "none"

ObjNames(d, type) ==
    SelectSeq([i \in 1..Len(d.objs) |-> d.objs[i]], LAMBDA o : o.type = type)

ColNames(def) == [i \in 1..Len(def.cols) |-> def.cols[i].name]

\* The column an identifier names: its position, 0 for the implicit rowid
\* (when no column has that name), -1 for no column.
ResolveCol(def, name) ==
    IF IndexOf(ColNames(def), name) # 0 THEN IndexOf(ColNames(def), name)
    ELSE IF name = S_rowid THEN 0
    ELSE -1

\* A view has no rowid: it reads as NULL.
CellOf(type, row, ci) ==
    IF ci = 0 THEN (IF type = "view" THEN NullV ELSE IntV(row.rowid))
    ELSE row.cells[ci]

AffOf(def, ci) == IF ci = 0 THEN "INTEGER" ELSE def.cols[ci].aff

\* column = ? for each condition, the parameter a text under the column's affinity.
WhereMatches(def, type, row, cis, vals) ==
    \A i \in 1..Len(cis) :
        LET cell == CellOf(type, row, cis[i])
        IN cell.t # "null" /\ cell = ApplyAffinity(AffOf(def, cis[i]), TextV(vals[i]))

RECURSIVE SortByRowid(_)
SortByRowid(S) ==
    IF S = {} THEN <<>>
    ELSE LET m == CHOOSE r \in S : \A q \in S : r.rowid <= q.rowid
         IN <<m>> \o SortByRowid(S \ {m})

PkCols(def) == {i \in 1..Len(def.cols) : def.cols[i].pk > 0}

\* PRIMARY KEY uniqueness: distinct rowids, and no two rows with the same
\* wholly non-NULL key.
KeysUnique(def, rows) ==
    \A i, j \in 1..Len(rows) :
        i < j =>
            /\ rows[i].rowid # rows[j].rowid
            /\ \/ PkCols(def) = {}
               \/ \E c \in PkCols(def) :
                     \/ rows[i].cells[c].t = "null"
                     \/ rows[j].cells[c].t = "null"
                     \/ rows[i].cells[c] # rows[j].cells[c]

MaxRowid(rows) ==
    IF rows = <<>> THEN 0
    ELSE CHOOSE m \in {rows[i].rowid : i \in 1..Len(rows)} :
            \A i \in 1..Len(rows) : rows[i].rowid <= m

\* ------------------------------------------- connection.execute (sqlite3)

S_cid == <<"c", "i", "d">>
S_type == <<"t", "y", "p", "e">>
S_notnull == <<"n", "o", "t", "n", "u", "l", "l">>
S_dflt_value == <<"d", "f", "l", "t", "_", "v", "a", "l", "u", "e">>
S_pk == <<"p", "k">>

\* The rows of pragma table_info for an object of the given type.
InfoRows(def, type) ==
    [i \in 1..Len(def.cols) |->
        <<IntV(i - 1), TextV(def.cols[i].name), TextV(def.cols[i].decl), IntV(0),
          IF def.cols[i].dflt.t = "null" THEN NullV
          ELSE TextV(<<"'">> \o def.cols[i].dflt.v \o <<"'">>),
          IntV(IF type = "view" THEN 0 ELSE def.cols[i].pk)>>]

ExecTableInfo(d, st) ==
    LET t == ParseIdent(st.table)
        type == ObjType(d, t.name)
        cols == <<S_cid, S_name, S_type, S_notnull, S_dflt_value, S_pk>>
    IN IF ~t.ok THEN EngErr("OperationalError", d, FALSE)
       ELSE EngRes("none", TRUE, cols,
                   IF type = "none" THEN <<>> ELSE InfoRows(d.def, type), d.rows, FALSE)

\* SELECT l.name FROM pragma_table_info(...) as l WHERE l.pk = 1
ExecPkQuery(d, st) ==
    LET r == ExecTableInfo(d, st)
        hit == SelectSeq(r.rows, LAMBDA row : row[6] = IntV(1))
    IN IF r.exc # "none" THEN r
       ELSE EngRes("none", TRUE, <<S_name>>, [i \in 1..Len(hit) |-> <<hit[i][2]>>],
                   d.rows, FALSE)

\* SELECT name FROM sqlite_schema WHERE type = ...
ExecSchema(d, type) ==
    LET objs == ObjNames(d, type)
    IN EngRes("none", TRUE, <<S_name>>,
              [i \in 1..Len(objs) |-> <<TextV(objs[i].name)>>], d.rows, FALSE)

\* SELECT [rowid,] * FROM table
ExecSelectAll(d, st, withrowid) ==
    LET t == ParseIdent(st.table)
        type == ObjType(d, t.name)
        ci == ResolveCol(d.def, S_rowid)
    IN IF ~t.ok \/ type = "none" THEN EngErr("OperationalError", d, FALSE)
       ELSE EngRes("none", TRUE,
                   (IF withrowid THEN <<S_rowid>> ELSE <<>>) \o ColNames(d.def),
                   [i \in 1..Len(d.rows) |->
                       (IF withrowid THEN <<CellOf(type, d.rows[i], ci)>> ELSE <<>>)
                       \o d.rows[i].cells],
                   d.rows, FALSE)

\* The conditions of a WHERE clause: each fragment parsed and resolved to a
\* column; ok is FALSE when one is no identifier or names no column.
WhereCols(d, where) ==
    LET ids == [i \in 1..Len(where) |-> ParseIdent(where[i])]
        cis == [i \in 1..Len(where) |-> ResolveCol(d.def, ids[i].name)]
    IN [ok |-> \A i \in 1..Len(where) : ids[i].ok /\ cis[i] >= 0, cis |-> cis]

\* SELECT col FROM table [WHERE k = ? AND ...]; a quoted name that is no
\* column reads as a string literal.
ExecSelectSingle(d, st) ==
    LET t == ParseIdent(st.table)
        type == ObjType(d, t.name)
        c == ParseIdent(st.cols[1])
        ci == ResolveCol(d.def, c.name)
        w == WhereCols(d, st.where)
        hit == SelectSeq(d.rows,
                         LAMBDA row : WhereMatches(d.def, type, row, w.cis, st.args))
    IN IF ~t.ok \/ type = "none" \/ ~c.ok \/ ~w.ok
       THEN EngErr("OperationalError", d, FALSE)
       ELSE EngRes("none", TRUE, <<c.name>>,
                   [i \in 1..Len(hit) |->
                       <<IF ci < 0 THEN TextV(c.name) ELSE CellOf(type, hit[i], ci)>>],
                   d.rows, FALSE)

\* UPDATE table SET col = ? [WHERE k = ? AND ...]
ExecUpdate(d, st) ==
    LET t == ParseIdent(st.table)
        type == ObjType(d, t.name)
        c == ParseIdent(st.cols[1])
        ci == ResolveCol(d.def, c.name)
        w == WhereCols(d, st.where)
        isrowid == ci = 0 \/ ci = d.def.alias
        newv == ApplyAffinity(AffOf(d.def, ci), TextV(st.args[1]))
        hits == {i \in 1..Len(d.rows) :
                    WhereMatches(d.def, type, d.rows[i], w.cis, Tail(st.args))}
        upd(row) ==
            IF isrowid
            THEN Row(NumOf(newv.v),
                     IF d.def.alias # 0 THEN [row.cells EXCEPT ![d.def.alias] = newv]
                     ELSE row.cells)
            ELSE Row(row.rowid, [row.cells EXCEPT ![ci] = newv])
        new == [i \in 1..Len(d.rows) |-> IF i \in hits THEN upd(d.rows[i]) ELSE d.rows[i]]
    IN IF ~t.ok \/ type # "table" \/ ~c.ok \/ ci < 0 \/ ~w.ok
       THEN EngErr("OperationalError", d, FALSE)
       ELSE IF hits # {} /\ isrowid /\ newv.t # "int"
       THEN EngErr("IntegrityError", d, TRUE)
       ELSE IF ~KeysUnique(d.def, new)
       THEN EngErr("IntegrityError", d, TRUE)
       ELSE EngRes("none", FALSE, <<>>, <<>>, SortByRowid(Range(new)), TRUE)

\* INSERT INTO table (cols) VALUES (?, ...)
ExecInsert(d, st) ==
    LET t == ParseIdent(st.table)
        type == ObjType(d, t.name)
        ids == [k \in 1..Len(st.cols) |-> ParseIdent(st.cols[k])]
        cis == [k \in 1..Len(st.cols) |-> ResolveCol(d.def, ids[k].name)]
        rk == IF IndexOf(cis, 0) # 0 THEN IndexOf(cis, 0)
              ELSE IF d.def.alias # 0 THEN IndexOf(cis, d.def.alias) ELSE 0
        rowidv == IF rk # 0 THEN ApplyAffinity("INTEGER", TextV(st.args[rk]))
                  ELSE IntV(MaxRowid(d.rows) + 1)
        cells == [i \in 1..Len(d.def.cols) |->
                     IF i = d.def.alias THEN rowidv
                     ELSE IF IndexOf(cis, i) # 0
                          THEN ApplyAffinity(d.def.cols[i].aff, TextV(st.args[IndexOf(cis, i)]))
                          ELSE d.def.cols[i].dflt]
        new == Append(d.rows, Row(NumOf(rowidv.v), cells))
    IN IF \/ ~t.ok \/ type # "table" \/ st.cols = <<>>
          \/ \E k \in 1..Len(st.cols) : ~ids[k].ok \/ cis[k] < 0
       THEN EngErr("OperationalError", d, FALSE)
       ELSE IF rowidv.t # "int" THEN EngErr("IntegrityError", d, TRUE)
       ELSE IF ~KeysUnique(d.def, new) THEN EngErr("IntegrityError", d, TRUE)
       ELSE EngRes("none", FALSE, <<>>, <<>>, SortByRowid(Range(new)), TRUE)

\* The statements a user types into the query box: a misspelt one
\* (SELEC * FROM t), SELECT * FROM <the table>, and
\* INSERT INTO <the table>(rowid) VALUES ('x'), a datatype mismatch; then the
\* statements that write: DELETE FROM <the table>,
\* CREATE VIEW w AS SELECT * FROM <the table>, and DROP VIEW v.
RawKinds ==
    {"raw_malformed", "raw_select", "raw_badrowid", "raw_delete", "raw_create_view",
     "raw_drop_view"}

\* The kinds among them that modify the data or the catalog.
WritingKinds == {"raw_delete", "raw_create_view", "raw_drop_view"}

\* DELETE FROM table: a data-modifying statement, the module begins a
\* transaction before it; it has no description.
ExecDelete(d) == EngRes("none", FALSE, <<>>, <<>>, <<>>, TRUE)

\* CREATE VIEW w ...: fails when the name is taken; DROP VIEW v: fails when
\* there is no such view. No transaction is begun for either.
ExecCreateView(d, st) ==
    IF \/ st.kind = "raw_create_view" /\ ObjType(d, S_w) # "none"
       \/ st.kind = "raw_drop_view" /\ ObjType(d, S_v) # "view"
    THEN EngErr("OperationalError", d, FALSE)
    ELSE EngRes("none", FALSE, <<>>, <<>>, d.rows, FALSE)

\* The catalog of the file after connection.execute of the statement.
CatalogAfter(d, file, st) ==
    IF file = "db" /\ st.kind = "raw_create_view" /\ ObjType(d, S_w) = "none"
    THEN Append(d.objs, Obj("view", S_w))
    ELSE IF file = "db" /\ st.kind = "raw_drop_view" /\ ObjType(d, S_v) = "view"
    THEN SelectSeq(d.objs, LAMBDA o : o.name # S_v)
    ELSE d.objs

\* connection.execute(sql, args) on the connection to a file.
Execute(d, file, st) ==
    IF file = "garbage"
    THEN EngErr(IF st.kind = "raw_malformed" THEN "OperationalError" ELSE "DatabaseError",
                d, FALSE)
    ELSE CASE st.kind = "schema_table" -> ExecSchema(d, "table")
           [] st.kind = "schema_view" -> ExecSchema(d, "view")
           [] st.kind = "table_info" -> ExecTableInfo(d, st)
           [] st.kind = "pk_query" -> ExecPkQuery(d, st)
           [] st.kind = "select_all" -> ExecSelectAll(d, st, FALSE)
           [] st.kind = "select_rowid_all" -> ExecSelectAll(d, st, TRUE)
           [] st.kind = "select_single" -> ExecSelectSingle(d, st)
           [] st.kind = "update" -> ExecUpdate(d, st)
           [] st.kind = "insert" -> ExecInsert(d, st)
           [] st.kind = "raw_select" -> ExecSelectAll(d, st, FALSE)
           [] st.kind = "raw_badrowid" -> EngErr("IntegrityError", d, TRUE)
           [] st.kind = "raw_delete" -> ExecDelete(d)
           [] st.kind \in {"raw_create_view", "raw_drop_view"} -> ExecCreateView(d, st)
           [] OTHER -> EngErr("OperationalError", d, FALSE)

\* ---------------------------------------------------------- class Database

\* The Database object: connection is "unset" until load has assigned the
\* attribute, then the kind of file it is connected to; tables and views are
\* assigned together (has_schema) by a load that got through.
NewDatabase ==
    [connection |-> "unset", path |-> "unset", has_schema |-> FALSE,
     tables |-> <<>>, views |-> <<>>]

\* A Python dict, in insertion order.
Dict(keys, vals) == [keys |-> keys, vals |-> vals]
EmptyDict == Dict(<<>>, <<>>)

\* What a method call gives: the exception that escaped it ("none": it
\* returned), the returned columns and rows, the table's rows and the
\* connection's in_transaction afterwards, the statements it executed.
MRes(exc, columns, rows, data, tx, sql) ==
    [exc |-> exc, columns |-> columns, rows |-> rows, data |-> data, tx |-> tx,
     sql |-> sql]

\* The lines of query after the execute: the exception passes through, a
\* statement with a description returns its columns and stringified rows, any
\* other returns ([], [[]]).
query_result(d, tx, st, r) ==
    IF r.exc # "none"
    THEN MRes(r.exc, <<>>, <<>>, d.rows, tx \/ r.begun, <<st>>)
    ELSE IF r.desc
    THEN MRes("none", r.columns,
              [i \in 1..Len(r.rows) |->
                  [j \in 1..Len(r.rows[i]) |-> PyStr(r.rows[i][j])]],
              r.data, tx \/ r.begun, <<st>>)
    ELSE MRes("none", <<>>, <<<<>>>>, r.data, tx \/ r.begun, <<st>>)

query(db, d, tx, st) ==
    IF db.connection = "unset"
    THEN MRes("none", <<>>, <<<<>>>>, d.rows, tx, <<>>)
    ELSE query_result(d, tx, st, Execute(d, db.connection, st))

\* The text a condition key contributes to a WHERE clause: f'{key}=?'.
condition_key(key) == key

condition_keys(keys) == [i \in 1..Len(keys) |-> condition_key(keys[i])]

\* rows[0][0] of a query's result.
first_value(r) ==
    IF r.exc # "none" THEN r
    ELSE IF r.rows = <<>> \/ r.rows[1] = <<>>
    THEN MRes("IndexError", <<>>, <<>>, r.data, r.tx, r.sql)
    ELSE MRes("none", <<>>, <<<<r.rows[1][1]>>>>, r.data, r.tx, r.sql)

query_single(db, d, tx, tablename, column, conditions) ==
    first_value(query(db, d, tx,
                      Stmt("select_single", escape_identifier(tablename),
                           <<escape_identifier(column)>>,
                           condition_keys(conditions.keys), conditions.vals)))

table_info(db, d, tx, name) ==
    query(db, d, tx, Stmt("table_info", escape_identifier(name), <<>>, <<>>, <<>>))

\* [r[0] for r in rows], or ['rowid'] when the query found no key column.
key_list(r) ==
    LET rowstrs == [i \in 1..Len(r.rows) |-> r.rows[i][1]]
    IN IF r.exc # "none" THEN r
       ELSE IF \E i \in 1..Len(r.rows) : r.rows[i] = <<>>
       THEN MRes("IndexError", <<>>, <<>>, r.data, r.tx, r.sql)
       ELSE MRes("none", IF rowstrs = <<>> THEN <<S_rowid>> ELSE rowstrs, <<>>,
                 r.data, r.tx, r.sql)

\* The returned list of key columns is in the result's columns.
primary_keys(db, d, tx, name) ==
    key_list(query(db, d, tx, Stmt("pk_query", escape_identifier(name), <<>>, <<>>, <<>>)))

\* The statement table_data chooses once it has the key columns.
table_data_stmt(db, name, pk) ==
    Stmt(IF name \notin Range(db.views) /\ pk.columns[1] = S_rowid
         THEN "select_rowid_all" ELSE "select_all",
         escape_identifier(name), <<>>, <<>>, <<>>)

\* table_data after primary_keys has returned or raised (pk).
table_data_select(db, d, tx, name, pk) ==
    IF pk.exc # "none" THEN pk
    ELSE IF ~db.has_schema THEN MRes("AttributeError", <<>>, <<>>, d.rows, tx, pk.sql)
    ELSE [query(db, d, tx, table_data_stmt(db, name, pk)) EXCEPT !.sql = pk.sql \o @]

table_data(db, d, tx, name) ==
    table_data_select(db, d, tx, name, primary_keys(db, d, tx, name))

\* The commit that follows the execute in update and insert; an exception of
\* the execute leaves before it.
commit_result(d, tx, st, r) ==
    IF r.exc # "none"
    THEN MRes(r.exc, <<>>, <<>>, d.rows, tx \/ r.begun, <<st>>)
    ELSE MRes("none", <<>>, <<>>, r.data, FALSE, <<st>>)

\* execute then commit, as update and insert do.
execute_commit(db, d, tx, st) ==
    IF db.connection = "unset"
    THEN MRes("AttributeError", <<>>, <<>>, d.rows, tx, <<>>)
    ELSE commit_result(d, tx, st, Execute(d, db.connection, st))

\* A faulty update: the conditions are dropped, no WHERE clause is added.
update_all_rows(db, d, tx, tablename, colunmname, value, where) ==
    execute_commit(db, d, tx,
                   Stmt("update", escape_identifier(tablename),
                        <<escape_identifier(colunmname)>>, <<>>, <<value>>))

update(db, d, tx, tablename, colunmname, value, where) ==
    execute_commit(db, d, tx,
                   Stmt("update", escape_identifier(tablename),
                        <<escape_identifier(colunmname)>>,
                        condition_keys(where.keys), <<value>> \o where.vals))

insert(db, d, tx, tablename, values) ==
    execute_commit(db, d, tx,
                   Stmt("insert", escape_identifier(tablename),
                        [i \in 1..Len(values.keys) |-> escape_identifier(values.keys[i])],
                        <<>>, values.vals))

\* load once the connection is made (db1) and the two catalog queries are
\* answered (t, v): an exception of the first escapes, else tables and views
\* are assigned and True is returned.
load_schema(db1, t, v) ==
    IF t.exc # "none"
    THEN [exc |-> t.exc, flag |-> FALSE, db |-> db1, sql |-> t.sql]
    ELSE [exc |-> "none", flag |-> TRUE,
          db |-> [db1 EXCEPT !.has_schema = TRUE,
                             !.tables = [i \in 1..Len(t.rows) |-> t.rows[i][1]],
                             !.views = [i \in 1..Len(v.rows) |-> v.rows[i][1]]],
          sql |-> t.sql \o v.sql]

\* The Database with its connection made to path.
connect(db, path) == [db EXCEPT !.connection = path, !.path = path]

\* load: the Database afterwards (db), the value returned (flag) and the
\* exception that escaped ("none": it returned).
load(db, d, path) ==
    IF path = "nodir" THEN [exc |-> "none", flag |-> FALSE, db |-> db, sql |-> <<>>]
    ELSE load_schema(connect(db, path),
                     query(connect(db, path), d, FALSE,
                           Stmt("schema_table", <<>>, <<>>, <<>>, <<>>)),
                     query(connect(db, path), d, FALSE,
                           Stmt("schema_view", <<>>, <<>>, <<>>, <<>>)))

\* -------------------------------------------------------------------- state

VARIABLES
    db,              \* the Database object
    disk,            \* the database file: its table (def), catalog (objs), rows
    in_transaction,  \* connection.in_transaction
    writes,          \* how many writing statements have been executed
    last,            \* the last call or handler: its arguments and its outcome
    app              \* the Sqint application

vars == <<db, disk, in_transaction, writes, last, app>>

\* The record of a call: op names the method (or the handler), then its
\* arguments, the exception that escaped it or that it caught ("none"), what
\* it returned and the statements it executed.
NoCall ==
    [op |-> "init", path |-> "unset", name |-> <<>>, column |-> <<>>, value |-> <<>>,
     where |-> EmptyDict, exc |-> "none", flag |-> FALSE, columns |-> <<>>,
     rows |-> <<>>, sql |-> <<>>]

\* The record of a call of a method that returns columns and rows.
Called(op, name, column, value, where, r) ==
    [NoCall EXCEPT !.op = op, !.name = name, !.column = column, !.value = value,
                   !.where = where, !.exc = r.exc, !.columns = r.columns,
                   !.rows = r.rows, !.sql = r.sql]

NoMessage == [msg |-> "none", newvalue |-> <<>>, values |-> EmptyDict]

NoEditInfo ==
    [value |-> <<>>, column |-> <<>>, tablename |-> <<>>, conditions |-> EmptyDict,
     coordinate |-> <<1, 1>>]

\* The application: currenttable (None is the empty name), the screen on top
\* of the stack, the column labels, cells and cursor of #dbtable, the
\* TableEditInfo of the field editor, the table and the RowEdit labels of the
\* insert dialog, #queryoutput, the leaves of #dbtree, the message posted and
\* not yet handled, and the exception that escaped a handler.
NewApp ==
    [currenttable |-> <<>>, screen |-> "unmounted", columns |-> <<>>, rows |-> <<>>,
     cursor |-> <<1, 1>>, editinfo |-> NoEditInfo, inserttable |-> <<>>,
     insertcolumns |-> <<>>, querycolumns |-> <<>>, queryrows |-> <<>>,
     tree |-> <<>>, pending |-> NoMessage, crashed |-> "none"]

Init ==
    /\ db = NewDatabase
    /\ \E def \in TableDefs :
          disk = [def |-> def, rows |-> def.rows,
                  objs |-> <<Obj("table", def.name), Obj("view", S_v)>>]
    /\ in_transaction = FALSE
    /\ writes = 0
    /\ last = NoCall
    /\ app = NewApp

\* ---------------------------------------------------- inputs of the callers

\* Table names a caller passes: the table, the view, a name of nothing.
Names == {disk.def.name, S_v, S_zz}

\* The declared primary key columns in key order (rowid when there is none).
DeclaredKey ==
    LET n == Cardinality(PkCols(disk.def))
    IN IF n = 0 THEN <<S_rowid>>
       ELSE [k \in 1..n |->
                disk.def.cols[CHOOSE i \in PkCols(disk.def) : disk.def.cols[i].pk = k].name]

\* Columns a caller names: the first key column and the last column, which
\* is in no key.
ColumnArgs == {DeclaredKey[1], disk.def.cols[Len(disk.def.cols)].name}

\* Texts a caller passes as the new value of a cell.
InputValues == {<<"0", "2">>, <<"x">>}

\* The strings table_data shows for a stored row under the given columns.
ShownCells(row, keys) ==
    [k \in 1..Len(keys) |-> PyStr(CellOf("table", row, ResolveCol(disk.def, keys[k])))]

S_99 == <<"9", "9">>

\* Condition sets: none; the first key column of the first stored row; the
\* whole declared key of the last stored row; a key of no row.
WhereArgs ==
    {EmptyDict, Dict(DeclaredKey, [k \in 1..Len(DeclaredKey) |-> S_99])}
    \cup (IF disk.rows = <<>> THEN {}
          ELSE {Dict(<<DeclaredKey[1]>>, ShownCells(disk.rows[1], <<DeclaredKey[1]>>)),
                Dict(DeclaredKey, ShownCells(disk.rows[Len(disk.rows)], DeclaredKey))})

RECURSIVE SubDicts(_, _)
\* The dicts over a subsequence of the keys, each value from vals.
SubDicts(keys, vals) ==
    IF keys = <<>> THEN {EmptyDict}
    ELSE LET rest == SubDicts(Tail(keys), vals)
         IN rest \cup {Dict(<<Head(keys)>> \o r.keys, <<v>> \o r.vals) :
                          r \in rest, v \in vals}

\* Texts a caller passes as the cells of a new row.
InsertValues == {<<"0", "2">>}

InsertArgs == SubDicts(ColNames(disk.def), InsertValues)

\* ------------------------------------------- the Database class, any caller

\* What a call of load leaves: the Database, a fresh connection when one was
\* made, and the record of the call.
load_called(op, path, r) ==
    /\ db' = r.db
    /\ in_transaction' = (IF path = "nodir" THEN in_transaction ELSE FALSE)
    /\ last' = [NoCall EXCEPT !.op = op, !.path = path, !.exc = r.exc,
                              !.flag = r.flag, !.sql = r.sql]

Do_load(path) ==
    /\ load_called("load", path, load(db, disk, path))
    /\ UNCHANGED <<disk, writes, app>>

\* A call that reads: the table's rows stay, a transaction may be begun.
ReadCall(op, name, column, where, r) ==
    /\ last' = Called(op, name, column, <<>>, where, r)
    /\ in_transaction' = r.tx
    /\ disk' = [disk EXCEPT !.rows = r.data]
    /\ UNCHANGED <<db, writes, app>>

RawStmt(kind) == Stmt(kind, escape_identifier(disk.def.name), <<>>, <<>>, <<>>)

\* The Database object once query has run on a file whose catalog has become
\* objs: with tables and views read again from the catalog (what query does
\* not do), and as query leaves it, no attribute assigned.
after_query_refreshed(db1, objs) ==
    IF db1.connection = "db"
    THEN LET t == ObjNames([objs |-> objs], "table")
             v == ObjNames([objs |-> objs], "view")
         IN [db1 EXCEPT !.tables = [i \in 1..Len(t) |-> t[i].name],
                        !.views = [i \in 1..Len(v) |-> v[i].name]]
    ELSE db1

after_query(db1, objs) == db1

\* The Database, the file and the count of writes after query (r) has executed
\* a statement of the given kind on the connection.
raw_executed(kind, r) ==
    /\ db' = after_query(db, CatalogAfter(disk, db.connection, RawStmt(kind)))
    /\ disk' = [disk EXCEPT !.rows = r.data,
                            !.objs = CatalogAfter(disk, db.connection, RawStmt(kind))]
    /\ in_transaction' = r.tx
    /\ writes' = writes + (IF kind \in WritingKinds /\ r.exc = "none" /\ r.sql # <<>>
                          THEN 1 ELSE 0)

query_called(kind, r) ==
    /\ last' = Called("query", <<>>, <<>>, <<>>, EmptyDict, r)
    /\ raw_executed(kind, r)

Do_query(kind) ==
    /\ kind \in WritingKinds => writes < MaxWrites
    /\ query_called(kind, query(db, disk, in_transaction, RawStmt(kind)))
    /\ app' = app

Do_table_info(name) ==
    ReadCall("table_info", name, <<>>, EmptyDict, table_info(db, disk, in_transaction, name))

Do_primary_keys(name) ==
    ReadCall("primary_keys", name, <<>>, EmptyDict,
             primary_keys(db, disk, in_transaction, name))

Do_table_data(name) ==
    ReadCall("table_data", name, <<>>, EmptyDict, table_data(db, disk, in_transaction, name))

Do_query_single(name, column, conditions) ==
    ReadCall("query_single", name, column, conditions,
             query_single(db, disk, in_transaction, name, column, conditions))

WriteCall(op, name, column, value, where, r) ==
    /\ writes < MaxWrites
    /\ writes' = writes + (IF r.exc = "none" THEN 1 ELSE 0)
    /\ last' = Called(op, name, column, value, where, r)
    /\ in_transaction' = r.tx
    /\ disk' = [disk EXCEPT !.rows = r.data]
    /\ UNCHANGED <<db, app>>

Do_update(name, column, value, where) ==
    WriteCall("update", name, column, value, where,
              update(db, disk, in_transaction, name, column, value, where))

\* The values of an insert are recorded as the call's condition mapping.
Do_insert(name, values) ==
    WriteCall("insert", name, <<>>, <<>>, values,
              insert(db, disk, in_transaction, name, values))

Next ==
    \/ \E path \in Paths : Do_load(path)
    \/ \E kind \in RawKinds : Do_query(kind)
    \/ \E name \in Names : Do_table_info(name)
    \/ \E name \in Names : Do_primary_keys(name)
    \/ \E name \in Names : Do_table_data(name)
    \/ \E name \in Names, column \in ColumnArgs, conditions \in WhereArgs :
          /\ name # disk.def.name => column = DeclaredKey[1] /\ conditions = EmptyDict
          /\ Do_query_single(name, column, conditions)
    \/ \E name \in {disk.def.name, S_v}, column \in ColumnArgs, value \in InputValues,
          where \in WhereArgs :
          /\ name = S_v => column = DeclaredKey[1] /\ where = EmptyDict /\ value = <<"x">>
          /\ Do_update(name, column, value, where)
    \/ \E name \in {disk.def.name, S_v}, values \in InsertArgs :
          /\ name = S_v => Len(values.keys) = 1
          /\ Do_insert(name, values)

Spec == Init /\ [][Next]_vars

\* ---------------------------------------------------------- class Sqint(App)

\* The exceptions that are a sqlite3.Error, and those among them that are a
\* sqlite3.OperationalError.
SqliteErrors == {"OperationalError", "IntegrityError", "DatabaseError"}
OperationalErrors == {"OperationalError"}

\* str(err) of an engine error.
S_errtext == <<"s", "y", "n", "t", "a", "x", SP, "e", "r", "r", "o", "r">>

\* A handler runs when the application is up, no exception has escaped, and
\* no posted message is waiting.
Idle(screen) == app.crashed = "none" /\ app.pending.msg = "none" /\ app.screen = screen

Handled(op) == [NoCall EXCEPT !.op = op]

\* The screen a caller of load_database ends on: an escaped exception ends the
\* application, True fills #dbtree, False leaves the caller's choice (onfail).
load_database_screen(a, r, onfail) ==
    IF r.exc # "none" THEN [a EXCEPT !.crashed = r.exc, !.screen = "main"]
    ELSE IF r.flag THEN [a EXCEPT !.screen = "main", !.tree = r.db.tables \o r.db.views]
    ELSE [a EXCEPT !.screen = onfail]

load_database_done(op, path, onfail, r) ==
    /\ load_called(op, path, r)
    /\ app' = load_database_screen(app, r, onfail)

\* load_database(path) called by the handler op.
load_database(op, path, onfail) ==
    /\ load_database_done(op, path, onfail, load(db, disk, path))
    /\ UNCHANGED <<disk, writes>>

\* on_mount: the application was started with a path (dbpath) or without one.
on_mount_path(path) ==
    /\ Idle("unmounted")
    /\ load_database("on_mount", path, "main")

on_mount_nopath ==
    /\ Idle("unmounted")
    /\ app' = [app EXCEPT !.screen = "opendb"]
    /\ last' = Handled("on_mount")
    /\ UNCHANGED <<db, disk, in_transaction, writes>>

on_open_db_fileopen(path) ==
    /\ Idle("opendb")
    /\ load_database("on_open_db_fileopen", path, "opendb")

\* The binding "o": push_screen('opendb').
push_opendb ==
    /\ Idle("main")
    /\ app' = [app EXCEPT !.screen = "opendb"]
    /\ last' = Handled("push_screen")
    /\ UNCHANGED <<db, disk, in_transaction, writes>>

\* The binding "escape" of the three screens, and the Cancel buttons.
pop_screen ==
    /\ app.crashed = "none" /\ app.pending.msg = "none"
    /\ app.screen \in {"opendb", "editfield", "insertrow"}
    /\ app' = [app EXCEPT !.screen = "main", !.editinfo = NoEditInfo,
                          !.inserttable = <<>>, !.insertcolumns = <<>>]
    /\ last' = Handled("pop_screen")
    /\ UNCHANGED <<db, disk, in_transaction, writes>>

\* #dbtable refilled: clear(columns=True), add_columns, add_rows(sanitize_table).
refill(a, columns, rows) ==
    [a EXCEPT !.columns = columns, !.rows = sanitize_table(rows), !.cursor = <<1, 1>>]

\* #dbtable and #infotable once table_data (r) and table_info (i) have
\* returned or raised.
tables_shown(a, r, i) ==
    IF r.exc # "none" THEN [a EXCEPT !.crashed = r.exc]
    ELSE IF i.exc # "none" THEN [refill(a, r.columns, r.rows) EXCEPT !.crashed = i.exc]
    ELSE refill(a, r.columns, r.rows)

node_selected(label, r, i) ==
    /\ last' = Called("on_tree_node_selected", label, <<>>, <<>>, EmptyDict, r)
    /\ app' = tables_shown([app EXCEPT !.currenttable = label], r, i)

on_tree_node_selected(label) ==
    /\ Idle("main")
    /\ node_selected(label, table_data(db, disk, in_transaction, label),
                     table_info(db, disk, in_transaction, label))
    /\ UNCHANGED <<db, disk, in_transaction, writes>>

\* DbTableEdit.current_row_values(*columns): the cells of the cursor row under
\* the named columns; exc is the exception raised by list.index or get_cell_at.
current_row_values(a, columns) ==
    LET colids == [k \in 1..Len(columns) |-> IndexOf(a.columns, columns[k])]
    IN IF \E k \in 1..Len(columns) : colids[k] = 0
       THEN [exc |-> "ValueError", dict |-> EmptyDict]
       ELSE IF a.cursor[1] > Len(a.rows)
       THEN [exc |-> "CellDoesNotExist", dict |-> EmptyDict]
       ELSE [exc |-> "none",
             dict |-> Dict(columns, [k \in 1..Len(columns) |-> a.rows[a.cursor[1]][colids[k]]])]

\* A guard that lets the dialogs open on any selection, and the guard of
\* action_edit_field and action_insert_row.
editable_any(a, d) == TRUE

editable(a, d) == a.currenttable # <<>> /\ a.currenttable \notin Range(d.views)

\* action_edit_field once query_single has returned the cell's value or raised
\* (r): the TableEditInfo handed to the editor, push_screen('editfield').
edit_field_value(a, col, pk, cv, r) ==
    /\ app' = IF r.exc # "none" THEN [a EXCEPT !.crashed = r.exc]
              ELSE [a EXCEPT !.screen = "editfield",
                             !.editinfo = [value |-> r.rows[1][1], column |-> col,
                                           tablename |-> a.currenttable,
                                           conditions |-> cv.dict,
                                           coordinate |-> a.cursor]]
    /\ last' = Called("action_edit_field", a.currenttable, col, <<>>, cv.dict,
                      [r EXCEPT !.sql = pk.sql \o @])

\* action_edit_field once current_row_values has returned or raised (cv).
edit_field_conditions(a, col, pk, cv) ==
    IF cv.exc # "none"
    THEN /\ app' = [a EXCEPT !.crashed = cv.exc]
         /\ last' = Called("action_edit_field", a.currenttable, <<>>, <<>>, EmptyDict, pk)
    ELSE edit_field_value(a, col, pk, cv,
                          query_single(db, disk, in_transaction, a.currenttable, col,
                                       cv.dict))

\* action_edit_field once primary_keys has returned or raised (pk).
edit_field_keys(a, col, pk) ==
    IF pk.exc # "none"
    THEN /\ app' = [a EXCEPT !.crashed = pk.exc]
         /\ last' = Called("action_edit_field", a.currenttable, <<>>, <<>>, EmptyDict, pk)
    ELSE edit_field_conditions(a, col, pk, current_row_values(a, pk.columns))

\* #dbtable with its cursor on a coordinate.
cursor_at(a, row, column) == [a EXCEPT !.cursor = <<row, column>>]

\* The cursor keys or the mouse put the cursor of #dbtable on a cell (an empty
\* grid keeps it on the first coordinate), then the binding "enter".
action_edit_field(row, column) ==
    /\ Idle("main")
    /\ writes < MaxWrites
    /\ IF ~editable(app, db)
       THEN /\ app' = cursor_at(app, row, column)
            /\ last' = Handled("action_edit_field")
       ELSE edit_field_keys(cursor_at(app, row, column), app.columns[column],
                            primary_keys(db, disk, in_transaction, app.currenttable))
    /\ UNCHANGED <<db, disk, in_transaction, writes>>

\* FieldEditor: Enter in the Input, or the Commit button: the screen is
\* popped and ChangeField(value, editinfo) posted.
field_editor_commit(value) ==
    /\ Idle("editfield")
    /\ app' = [app EXCEPT !.screen = "main",
                          !.pending = [NoMessage EXCEPT !.msg = "ChangeField",
                                                        !.newvalue = value]]
    /\ last' = Handled("field_editor_commit")
    /\ UNCHANGED <<db, disk, in_transaction, writes>>

\* A faulty handler: update_cell_at after the try statement, whatever update did.
cell_updated_always(r, a, coordinate, new_value) ==
    [a EXCEPT !.rows[coordinate[1]][coordinate[2]] = new_value]

\* The try/except/else of on_field_editor_change_field: update_cell_at runs
\* in the else branch.
cell_updated(r, a, coordinate, new_value) ==
    IF r.exc = "none" THEN [a EXCEPT !.rows[coordinate[1]][coordinate[2]] = new_value]
    ELSE a

\* A handler that wrote through update or insert (r): the file, the
\* connection and the count of writes afterwards.
written(r) ==
    /\ disk' = [disk EXCEPT !.rows = r.data]
    /\ in_transaction' = r.tx
    /\ writes' = writes + (IF r.exc = "none" THEN 1 ELSE 0)
    /\ db' = db

\* on_field_editor_change_field once update has returned or raised (r).
change_field(a, info, new_value, r) ==
    /\ last' = Called("on_field_editor_change_field", info.tablename, info.column,
                      new_value, info.conditions, r)
    /\ app' = IF r.exc \notin SqliteErrors \cup {"none"} THEN [a EXCEPT !.crashed = r.exc]
              ELSE cell_updated(r, a, info.coordinate, new_value)
    /\ written(r)

on_field_editor_change_field ==
    /\ app.crashed = "none" /\ app.pending.msg = "ChangeField"
    /\ change_field([app EXCEPT !.pending = NoMessage, !.editinfo = NoEditInfo],
                    app.editinfo, app.pending.newvalue,
                    update(db, disk, in_transaction, app.editinfo.tablename,
                           app.editinfo.column, app.pending.newvalue,
                           app.editinfo.conditions))

\* The binding "i" of #dbtable: the insert dialog gets one RowEdit per column
\* label of the grid.
action_insert_row ==
    /\ Idle("main")
    /\ writes < MaxWrites
    /\ app' = IF editable(app, db)
              THEN [app EXCEPT !.screen = "insertrow", !.inserttable = app.currenttable,
                               !.insertcolumns = app.columns]
              ELSE app
    /\ last' = Handled("action_insert_row")
    /\ UNCHANGED <<db, disk, in_transaction, writes>>

\* values[key] = value on a dict: a key already there keeps its place.
DictSet(dict, key, value) ==
    IF IndexOf(dict.keys, key) # 0
    THEN Dict(dict.keys, [dict.vals EXCEPT ![IndexOf(dict.keys, key)] = value])
    ELSE Dict(Append(dict.keys, key), Append(dict.vals, value))

RECURSIVE accept_values_all(_, _, _)
\* A faulty accept: every RowEdit adds its key, an empty Input the empty string.
accept_values_all(labels, inputs, k) ==
    IF k = 0 THEN EmptyDict
    ELSE DictSet(accept_values_all(labels, inputs, k - 1), labels[k], inputs[k])

RECURSIVE accept_values(_, _, _)
\* The loop of InsertEditor.accept over the first k RowEdits: an input left
\* empty adds no key.
accept_values(labels, inputs, k) ==
    IF k = 0 THEN EmptyDict
    ELSE IF inputs[k] # <<>>
         THEN DictSet(accept_values(labels, inputs, k - 1), labels[k], inputs[k])
         ELSE accept_values(labels, inputs, k - 1)

\* InsertEditor.accept: the Commit button with the given text in each Input
\* (recorded as the one row of the call).
accept(inputs) ==
    /\ Idle("insertrow")
    /\ app' = [app EXCEPT !.screen = "main",
                          !.pending = [NoMessage EXCEPT
                              !.msg = "InsertRow",
                              !.values = accept_values(app.insertcolumns, inputs,
                                                       Len(app.insertcolumns))]]
    /\ last' = [Handled("accept") EXCEPT !.rows = <<inputs>>]
    /\ UNCHANGED <<db, disk, in_transaction, writes>>

\* #dbtable once the table_data of on_insert_editor_insert_row has returned or
\* raised (t).
grid_reloaded(a, t) ==
    IF t.exc # "none" THEN [a EXCEPT !.crashed = t.exc] ELSE refill(a, t.columns, t.rows)

\* on_insert_editor_insert_row once insert has returned or raised (r).
insert_row(a, r) ==
    /\ last' = Called("on_insert_editor_insert_row", app.inserttable, <<>>, <<>>,
                      app.pending.values, r)
    /\ app' = IF r.exc \in SqliteErrors THEN a
              ELSE IF r.exc # "none" THEN [a EXCEPT !.crashed = r.exc]
              ELSE IF app.currenttable = <<>> THEN a
              ELSE grid_reloaded(a, table_data(db, [disk EXCEPT !.rows = r.data], r.tx,
                                               app.currenttable))
    /\ written(r)

on_insert_editor_insert_row ==
    /\ app.crashed = "none" /\ app.pending.msg = "InsertRow"
    /\ insert_row([app EXCEPT !.pending = NoMessage, !.inserttable = <<>>,
                              !.insertcolumns = <<>>],
                  insert(db, disk, in_transaction, app.inserttable, app.pending.values))

\* #queryoutput once query has returned or raised (r): cleared, then filled
\* with the result, or with the 'Error' column for an OperationalError.
query_shown(a, r) ==
    IF r.exc \in OperationalErrors
    THEN [a EXCEPT !.querycolumns = <<S_Error>>,
                   !.queryrows = sanitize_table(<<<<S_errtext>>>>)]
    ELSE IF r.exc # "none"
    THEN [a EXCEPT !.querycolumns = <<>>, !.queryrows = <<>>, !.crashed = r.exc]
    ELSE [a EXCEPT !.querycolumns = r.columns, !.queryrows = sanitize_table(r.rows)]

input_submitted(kind, r) ==
    /\ last' = Called("on_input_submitted", <<>>, <<>>, <<>>, EmptyDict, r)
    /\ app' = query_shown(app, r)
    /\ raw_executed(kind, r)

\* Enter in #queryinput: the query box.
on_input_submitted(kind) ==
    /\ Idle("main")
    /\ kind \in WritingKinds => writes < MaxWrites
    /\ input_submitted(kind, query(db, disk, in_transaction, RawStmt(kind)))

\* The texts typed into an Input of the insert dialog.
DialogInputs == {<<>>, <<"0", "2">>}

AppNext ==
    \/ \E path \in Paths : on_mount_path(path)
    \/ on_mount_nopath
    \/ \E path \in Paths : on_open_db_fileopen(path)
    \/ push_opendb
    \/ pop_screen
    \/ \E label \in Range(app.tree) : on_tree_node_selected(label)
    \/ \E row \in 1..Len(app.rows), column \in 1..Len(app.columns) :
          action_edit_field(row, column)
    \/ app.rows = <<>> /\ action_edit_field(1, 1)
    \/ \E value \in InputValues : field_editor_commit(value)
    \/ on_field_editor_change_field
    \/ action_insert_row
    \/ \E inputs \in [1..Len(app.insertcolumns) -> DialogInputs] : accept(inputs)
    \/ on_insert_editor_insert_row
    \/ \E kind \in RawKinds : on_input_submitted(kind)

AppSpec == Init /\ [][AppNext]_vars


\* ------------------------------------------------------------------- claims

\* The declared key is one column of the table.
SingleColumnKey == Cardinality(PkCols(disk.def)) = 1

\* The rows table_data shows, with the cell under column ci of every row
\* whose cell under column ki is key replaced by value.
WithCell(rows, ki, key, ci, value) ==
    [i \in 1..Len(rows) |->
        [j \in 1..Len(rows[i]) |->
            IF rows[i][ki] = key /\ j = ci THEN value ELSE rows[i][j]]]

\* The string table_data shows for a text written to a column of the table:
\* the engine stores it under the column's type affinity.
ShownAs(column, value) ==
    PyStr(ApplyAffinity(AffOf(disk.def, ResolveCol(disk.def, column)), TextV(value)))

\* C1: on a table with an explicit single-column primary key, update(table,
\* column, value, {pk: key string of a displayed row}) returns unless the
\* engine rejects the value (a constraint, a datatype mismatch), and when it
\* returned, table_data shows the new value (as the column's affinity stores
\* it) in that row's cell of that column and every other cell as before.
\* Stated for the tables whose grid has exactly the declared columns.
C1_UpdateThenTableData ==
    [][LET before == table_data(db, disk, in_transaction, disk.def.name)
           after == table_data(db', disk', in_transaction', disk.def.name)
           ki == IndexOf(before.columns, DeclaredKey[1])
           ci == IndexOf(before.columns, last'.column)
       IN (/\ last'.op = "update"
           /\ db.has_schema /\ db.connection = "db"
           /\ last'.name = disk.def.name
           /\ SingleColumnKey
           /\ last'.where.keys = DeclaredKey
           /\ before.exc = "none" /\ before.columns = ColNames(disk.def)
           /\ \E i \in 1..Len(before.rows) : before.rows[i][ki] = last'.where.vals[1])
          => /\ last'.exc \in {"none", "IntegrityError"}
             /\ last'.exc = "none" =>
                   /\ after.exc = "none"
                   /\ after.columns = before.columns
                   /\ after.rows = WithCell(before.rows, ki, last'.where.vals[1], ci,
                                            ShownAs(last'.column, last'.value))
      ]_vars


\* A method of a Database that load has connected to the database file was
\* called on the table, and returned.
ReturnedOnTable(op) ==
    /\ last.op = op /\ last.exc = "none"
    /\ db.has_schema /\ db.connection = "db"
    /\ last.name = disk.def.name

\* C2: for a table that declares a primary key over several columns,
\* primary_keys returns every column of the key, in the key's order.
C2_PrimaryKeysReturnsWholeKey ==
    ReturnedOnTable("primary_keys") /\ Cardinality(PkCols(disk.def)) > 1
        => last.columns = DeclaredKey

\* C3: table_data returns rowid followed by the table's columns for a table
\* that declares no primary key, and exactly the declared columns for a table
\* that declares one and for a view.
C3_RowidPrefixOnlyWithoutKey ==
    /\ ReturnedOnTable("table_data")
          => last.columns = IF PkCols(disk.def) = {} THEN <<S_rowid>> \o ColNames(disk.def)
                            ELSE ColNames(disk.def)
    /\ ReturnedOnTable("primary_keys") /\ PkCols(disk.def) = {}
          => last.columns = <<S_rowid>>
    /\ last.op = "table_data" /\ last.exc = "none" /\ last.name = S_v
          => last.columns = ColNames(disk.def)

\* C4: load returns a boolean and no exception escapes it; it returns False
\* for a path that cannot be opened and for a file that is not a database.
C4_LoadReturnsBoolean ==
    last.op = "load"
        => /\ last.exc = "none"
           /\ last.path \in {"nodir", "garbage"} => last.flag = FALSE

\* The schema and query operations of Database.
ReadOps == {"query", "table_info", "table_data", "primary_keys", "query_single"}

\* C5: on a Database on which no load has succeeded, a schema or query
\* operation returns its empty result or raises a sqlite3 error, and nothing
\* else escapes it.
C5_CleanFailureBeforeLoad ==
    last.op \in ReadOps /\ ~db.has_schema
        => last.exc \in {"none"} \cup SqliteErrors


\* C6: after the query box handled a query, no exception has escaped the
\* handler, and a query the engine failed is shown as the single column
\* 'Error' over a single row of one non-empty cell.
C6_QueryErrorsAreShown ==
    last.op = "on_input_submitted"
        => /\ app.crashed = "none"
           /\ last.exc # "none"
                 => /\ app.querycolumns = <<S_Error>>
                    /\ Len(app.queryrows) = 1
                    /\ Len(app.queryrows[1]) = 1
                    /\ app.queryrows[1][1] # <<>>

\* The methods that generate a statement over a table's name.
GeneratingOps ==
    {"table_info", "table_data", "primary_keys", "query_single", "update", "insert"}

\* C7: in every statement generated by table_info, table_data, primary_keys,
\* query_single, update and insert, the table name, the column names and the
\* column names of the WHERE conditions are the escape_identifier of the names
\* the caller passed, and one parameter is bound for each value.
C7_IdentifiersEscaped ==
    last.op \in GeneratingOps
        => \A i \in 1..Len(last.sql) :
              /\ last.sql[i].table = escape_identifier(last.name)
              /\ last.sql[i].kind \in {"select_single", "update"}
                    => /\ last.sql[i].cols = <<escape_identifier(last.column)>>
                       /\ last.sql[i].where =
                             [k \in 1..Len(last.where.keys) |->
                                 escape_identifier(last.where.keys[k])]
              /\ last.sql[i].kind = "select_single" => last.sql[i].args = last.where.vals
              /\ last.sql[i].kind = "update"
                    => last.sql[i].args = <<last.value>> \o last.where.vals
              /\ last.sql[i].kind = "insert"
                    => /\ last.sql[i].cols =
                             [k \in 1..Len(last.where.keys) |->
                                 escape_identifier(last.where.keys[k])]
                       /\ last.sql[i].args = last.where.vals

\* C9: when the edit of a cell is requested on a grid that shows the table as
\* it is, the conditions map each key column to the string table_data returns
\* for the cursor's row under that column.
C9_ConditionsAreTableData ==
    LET t == table_data(db, disk, in_transaction, app.currenttable)
    IN last.op = "action_edit_field" /\ last.where # EmptyDict /\ writes = 0
          => /\ t.exc = "none"
             /\ \A k \in 1..Len(last.where.keys) :
                   last.where.vals[k]
                       = t.rows[app.cursor[1]][IndexOf(t.columns, last.where.keys[k])]


\* C8: the step of on_field_editor_change_field executes one statement and
\* consumes the message; it changes a cell of the grid only when update
\* returned, and when update raised, the grid and the rows of the table are
\* as before.
C8_GridChangesOnlyAfterUpdate ==
    [][app.crashed = "none" /\ app.pending.msg = "ChangeField"
          => /\ last'.op = "on_field_editor_change_field"
             /\ Len(last'.sql) = 1
             /\ app'.pending = NoMessage
             /\ app'.rows # app.rows => last'.exc = "none"
             /\ last'.exc # "none"
                   => /\ app'.rows = app.rows /\ app'.columns = app.columns
                      /\ disk'.rows = disk.rows
      ]_vars

\* The handler has run on an update the engine rejected, with a new value
\* that is not the text the grid shows in the edited cell.
C8_UpdateRejected ==
    /\ last.op = "on_field_editor_change_field"
    /\ last.exc = "IntegrityError"
    /\ app.rows[app.cursor[1]][app.cursor[2]] # last.value


\* A sequence without its element at position p.
Without(seq, p) == SubSeq(seq, 1, p - 1) \o SubSeq(seq, p + 1, Len(seq))

\* The value supplied under a key of a dict.
ValueOf(dict, key) == dict.vals[IndexOf(dict.keys, key)]

\* The statement insert(tablename, values) is to build: the keys of values in
\* mapping order, one bound parameter for each.
InsertStatement(tablename, values) ==
    Stmt("insert", escape_identifier(tablename),
         [k \in 1..Len(values.keys) |-> escape_identifier(values.keys[k])],
         <<>>, values.vals)

\* The step of on_insert_editor_insert_row executes the statement of the
\* posted values.
InsertsPostedValues ==
    app.crashed = "none" /\ app.pending.msg = "InsertRow"
        => /\ last'.op = "on_insert_editor_insert_row"
           /\ last'.sql = <<InsertStatement(app.inserttable, app.pending.values)>>
           /\ Len(last'.sql[1].args) = Len(app.pending.values.keys)

\* The step of InsertEditor.accept posts the labels whose Input holds a text,
\* in label order, each with that text, and no label whose Input is empty.
AcceptOmitsEmptyInputs ==
    LET labels == app.insertcolumns
        inputs == last'.rows[1]
        values == app'.pending.values
    IN app.crashed = "none" /\ app.screen = "insertrow" /\ last'.op = "accept"
          => /\ app'.pending.msg = "InsertRow"
             /\ \A k \in 1..Len(values.keys) : values.vals[k] # <<>>
             /\ \A k \in 1..Len(labels) :
                   \/ inputs[k] = <<>>
                   \/ /\ labels[k] \in Range(values.keys)
                      /\ \/ ValueOf(values, labels[k]) = inputs[k]
                         \/ \E j \in (k + 1)..Len(labels) : labels[j] = labels[k]
             /\ \A k \in 1..Len(values.keys) :
                   /\ \E j \in 1..Len(labels) : labels[j] = values.keys[k] /\ inputs[j] # <<>>
                   /\ \A j \in 1..(k - 1) :
                         IndexOf(labels, values.keys[j]) < IndexOf(labels, values.keys[k])

\* After the insert handler's insert returned, table_data shows the rows it
\* showed before and one more, whose cell under each column of the table, and
\* under each supplied column, is cell(column).
OneMoreRow(cell(_)) ==
    LET before == table_data(db, disk, in_transaction, app.inserttable)
        after == table_data(db', disk', in_transaction', app.inserttable)
    IN app.crashed = "none" /\ app.pending.msg = "InsertRow" /\ last'.exc = "none"
          => /\ after.exc = "none" /\ after.columns = before.columns
             /\ \E p \in 1..Len(after.rows) :
                   /\ Without(after.rows, p) = before.rows
                   /\ \A j \in 1..Len(after.columns) :
                         \/ /\ after.columns[j] \notin Range(app.pending.values.keys)
                            /\ after.columns[j] \notin Range(ColNames(disk.def))
                         \/ after.rows[p][j] = cell(after.columns[j])

\* The cell of a new row as the claim states it: the supplied value, and for
\* an omitted column the schema default or NULL.
CellAsSupplied(column) ==
    IF column \in Range(app.pending.values.keys) THEN ValueOf(app.pending.values, column)
    ELSE PyStr(disk.def.cols[ResolveCol(disk.def, column)].dflt)

\* The cell of a new row as the engine stores it: the supplied value under the
\* column's affinity; for an omitted column the schema default or NULL, and
\* the assigned row id when the column is the INTEGER PRIMARY KEY.
CellAsStored(column) ==
    IF column \in Range(app.pending.values.keys)
    THEN ShownAs(column, ValueOf(app.pending.values, column))
    ELSE IF ResolveCol(disk.def, column) = disk.def.alias
    THEN PyStr(IntV(MaxRowid(disk.rows) + 1))
    ELSE PyStr(disk.def.cols[ResolveCol(disk.def, column)].dflt)

\* C10 as stated: the insert names exactly the keys of values with one bound
\* parameter each; table_data then shows one more row, whose supplied columns
\* hold the supplied values and whose omitted columns hold the schema default
\* or NULL; the insert dialog omits every column whose input was left empty.
C10_InsertAsStated ==
    [][InsertsPostedValues /\ AcceptOmitsEmptyInputs /\ OneMoreRow(CellAsSupplied)]_vars

\* C10 amended: as stated, but a supplied value is held as the column's type
\* affinity stores it, and an omitted INTEGER PRIMARY KEY column holds the row
\* id the engine assigned.
C10_InsertAsStored ==
    [][InsertsPostedValues /\ AcceptOmitsEmptyInputs /\ OneMoreRow(CellAsStored)]_vars

\* The insert handler has inserted a row for which the dialog omitted a column.
C10_InsertedWithOmittedColumn ==
    /\ last.op = "on_insert_editor_insert_row"
    /\ last.exc = "none"
    /\ last.where.keys # <<>>
    /\ \E c \in Range(ColNames(disk.def)) : c \notin Range(last.where.keys)


\* update was called on the table of a loaded database and returned.
UpdateReturned ==
    /\ last'.op = "update" /\ last'.exc = "none"
    /\ db.has_schema /\ db.connection = "db"
    /\ last'.name = disk.def.name

\* A row table_data shows that some condition of the mapping does not match:
\* its cell under a condition's column is not the condition's value as the
\* column's affinity compares it.
Unmatched(columns, row, where) ==
    \E k \in 1..Len(where.keys) :
        row[IndexOf(columns, where.keys[k])] # ShownAs(where.keys[k], where.vals[k])

WriteStatements == {"update", "insert"} \cup WritingKinds

\* C12: when update, insert, or query with a statement that writes has
\* returned without an error, no transaction is left open on the connection:
\* the write has been committed.
C12_WritesAreCommitted ==
    /\ last.op \in {"update", "insert", "query"}
    /\ last.exc = "none"
    /\ last.sql # <<>>
    /\ last.sql[1].kind \in WriteStatements
    => ~in_transaction

\* ------------------------------------------------- escape_identifier alone

\* The longest name given to escape_identifier, and the characters of names.
MaxLen == 4
NameChars == {Q, "a", "b"}
NameInputs == UNION {[1..n -> NameChars] : n \in 0..MaxLen}

\* A caller holds a name; nothing is loaded.
EscInit ==
    /\ db = NewDatabase
    /\ disk = [def |-> T_quoted, rows |-> T_quoted.rows,
               objs |-> <<Obj("table", T_quoted.name), Obj("view", S_v)>>]
    /\ in_transaction = FALSE
    /\ writes = 0
    /\ app = NewApp
    /\ \E name \in NameInputs : last = [NoCall EXCEPT !.name = name]

\* escape_identifier(name): the call record keeps the name and what it returned.
Do_escape_identifier ==
    /\ last.op = "init"
    /\ last' = [last EXCEPT !.op = "escape_identifier",
                            !.value = escape_identifier(last.name)]
    /\ UNCHANGED <<db, disk, in_transaction, writes, app>>

EscNext == Do_escape_identifier

EscSpec == EscInit /\ [][EscNext]_vars

RECURSIVE QuotesPaired(_)
\* Every double quote of s is followed by its pair.
QuotesPaired(s) ==
    IF s = <<>> THEN TRUE
    ELSE IF Head(s) = Q
         THEN Len(s) >= 2 /\ s[2] = Q /\ QuotesPaired(SubSeq(s, 3, Len(s)))
         ELSE QuotesPaired(Tail(s))

\* s with every double quote removed.
Unquoted(s) == SelectSeq(s, LAMBDA c : c # Q)

\* How many double quotes s holds.
QuoteCount(s) == Len(s) - Len(Unquoted(s))

\* C13: escape_identifier(name) is the name between one pair of double quotes
\* with each embedded double quote doubled: the body holds the characters of
\* the name in order with twice its quotes, every quote of the body is paired,
\* un-doubling the body (as the engine reads a quoted identifier) gives back
\* the name, and no other name has the same quoted form.
C13_EscapeIdentifier ==
    last.op = "escape_identifier"
    => LET name == last.name
           quoted == last.value
           body == SubSeq(quoted, 2, Len(quoted) - 1)
       IN /\ Len(quoted) >= 2 /\ quoted[1] = Q /\ quoted[Len(quoted)] = Q
          /\ Unquoted(body) = Unquoted(name)
          /\ QuoteCount(body) = 2 * QuoteCount(name)
          /\ QuotesPaired(body)
          /\ Undouble(body) = [ok |-> TRUE, name |-> name]
          /\ ParseIdent(quoted) = [ok |-> TRUE, name |-> name]
          /\ \A other \in NameInputs :
                escape_identifier(other) = quoted => other = name

\* escape_identifier has quoted a name that holds a double quote between
\* other characters.
C13_QuoteInsideName ==
    /\ last.op = "escape_identifier"
    /\ Len(last.name) >= 3
    /\ \E i \in 2..(Len(last.name) - 1) :
          last.name[i] = Q /\ last.name[i - 1] # Q /\ last.name[i + 1] # Q

\* C14: only load writes the schema snapshot: a call of query, table_info,
\* table_data, primary_keys, query_single, update or insert leaves
\* Database.tables and Database.views as they were, also when the statement
\* it executed created or dropped a view.
C14_SnapshotWrittenOnlyByLoad ==
    [][last'.op # "load" => db'.tables = db.tables /\ db'.views = db.views]_vars

\* The view names in the catalog of the file.
CatalogViews == {disk.objs[i].name : i \in {j \in 1..Len(disk.objs) : disk.objs[j].type = "view"}}

\* After a load, query has created or dropped a view: the views of the
\* snapshot are no longer the views of the file.
C14_SnapshotIsStale ==
    /\ last.op = "query" /\ last.exc = "none"
    /\ db.has_schema /\ db.connection = "db"
    /\ last.sql # <<>> /\ last.sql[1].kind \in {"raw_create_view", "raw_drop_view"}
    /\ Range(db.views) # CatalogViews

\* A Python str: a sequence of characters.
IsStr(cell) == DOMAIN cell = 1..Len(cell)

\* The statement query was given is one the engine accepts on a usable
\* connection: not the malformed one, not the one with a datatype mismatch.
WellFormedQuery ==
    last.sql = <<>> \/ last.sql[1].kind \notin {"raw_malformed", "raw_badrowid"}

\* C15: query returns ([], [[]]) and raises nothing when the connection is
\* absent or unusable or when the statement has no column metadata; any other
\* statement that query answers has rows of as many cells as there are
\* columns, every cell a string.
C15_QueryResultShape ==
    last.op = "query" /\ WellFormedQuery
    => IF \/ db.connection # "db"
          \/ last.exc = "none" /\ last.sql[1].kind \in WritingKinds
       THEN last.exc = "none" /\ last.columns = <<>> /\ last.rows = <<<<>>>>
       ELSE last.exc = "none"
            => /\ last.columns # <<>>
               /\ \A i \in 1..Len(last.rows) :
                     /\ Len(last.rows[i]) = Len(last.columns)
                     /\ \A j \in 1..Len(last.rows[i]) : IsStr(last.rows[i][j])

\* The handlers that call Database.update and Database.insert.
WritingHandlers == {"on_field_editor_change_field", "on_insert_editor_insert_row"}

\* C16: in the application, update and insert are never called with a name of
\* the views snapshot, and whenever the edit dialog or the insert dialog is
\* open the current selection is a name that is not in the views snapshot.
C16_NoRowEditOnViews ==
    [][/\ last'.op \in WritingHandlers => last'.name \notin Range(db.views)
       /\ app'.screen \in {"editfield", "insertrow"}
             => /\ app'.currenttable # <<>>
                /\ app'.currenttable \notin Range(db'.views)
      ]_vars

\* The insert binding was used while a view is selected and shown, and no
\* dialog has opened.
C16_InsertRefusedOnView ==
    /\ last.op = "action_insert_row"
    /\ app.currenttable \in Range(db.views)
    /\ app.columns # <<>>
    /\ app.screen = "main"

\* update was called on the table of a loaded database, for a column of the
\* table, with conditions on columns that table_data shows, and no row that
\* table_data shows matches every condition.
UpdateMatchesNoRow ==
    LET before == table_data(db, disk, in_transaction, disk.def.name)
        where == last'.where
    IN /\ last'.op = "update"
       /\ db.has_schema /\ db.connection = "db"
       /\ last'.name = disk.def.name
       /\ where.keys # <<>>
       /\ before.exc = "none"
       /\ \A k \in 1..Len(where.keys) : IndexOf(before.columns, where.keys[k]) # 0
       /\ \A i \in 1..Len(before.rows) : Unmatched(before.columns, before.rows[i], where)

\* C17: an update whose conditions match no row returns without an error,
\* returns what every update returns (nothing), and leaves every row of the
\* table as it was.
C17_ZeroRowUpdateSucceeds ==
    [][UpdateMatchesNoRow
       => /\ last'.exc = "none"
          /\ last'.columns = <<>> /\ last'.rows = <<>>
          /\ disk'.rows = disk.rows
      ]_vars

====
